---- MODULE Spec2Model ----
(***************************************************************************)
(* The gold advisory / purchase API of src/main.py as a state machine.     *)
(* Request handlers run in a worker pool; every database statement         *)
(* (db.get, db.commit, the SELECT of list_purchases) is one atomic step,   *)
(* and the computation between two statements belongs to the step that     *)
(* follows it.                                                             *)
(*                                                                         *)
(* Numbers.  Floats are modelled as exact decimals in fixed units:         *)
(*   amounts in paise (1/100 INR), requested grams in 1/100000 g,          *)
(*   stored grams in 1/10000 g (round(grams, 4)), stored inr_amount in     *)
(*   paise (round(inr_amount, 2)).  round() on a decimal tie is resolved   *)
(*   by the binary expansion of the float, so a tie may go either way.     *)
(* Optional[T] is modelled as a sequence: <<>> is None, <<v>> is v.        *)
(***************************************************************************)
EXTENDS Integers, Sequences, FiniteSets, TLC

\* ----------------------------------------------------------------- bounds
\* Total number of requests the workers accept in one execution.
MaxRequests == 3
\* Largest value datetime.utcnow() takes (timestamps are 1..MaxClock).
MaxClock == 2

\* ------------------------------------------------------ program constants
GOLD_PRICE_PER_GRAM_INR_DEFAULT == 6500

None == <<>>
Some(v) == <<v>>

\* The threadpool workers that run the (sync) route handlers.
Procs == {"w1", "w2"}

\* ------------------------------------------------------------- classifier
GOLD_KEYWORDS ==
    { <<"g","o","l","d">>,
      <<"2","4","k">>,
      <<"2","4"," ","k","a","r","a","t">>,
      <<"2","2","k">>,
      <<"s","o","v","e","r","e","i","g","n"," ","g","o","l","d"," ","b","o","n","d">>,
      <<"s","g","b">>,
      <<"d","i","g","i","t","a","l"," ","g","o","l","d">>,
      <<"i","n","v","e","s","t"," ","i","n"," ","g","o","l","d">>,
      <<"g","o","l","d"," ","p","r","i","c","e">>,
      <<"g","o","l","d"," ","r","a","t","e">>,
      <<"b","u","y"," ","g","o","l","d">>,
      <<"s","e","l","l"," ","g","o","l","d">>,
      <<"g","o","l","d"," ","e","t","f">>,
      <<"g","o","l","d"," ","m","u","t","u","a","l"," ","f","u","n","d">>,
      <<"g","o","l","d"," ","r","e","t","u","r","n","s">>,
      <<"g","o","l","d"," ","i","n","f","l","a","t","i","o","n"," ","h","e","d","g","e">>,
      <<"g","o","l","d"," ","t","a","x","a","t","i","o","n">> }

BUY_INTENT ==
    { <<"b","u","y">>,
      <<"p","u","r","c","h","a","s","e">>,
      <<"i","n","v","e","s","t">>,
      <<"y","e","s">>,
      <<"p","r","o","c","e","e","d">>,
      <<"c","o","n","f","i","r","m">>,
      <<"p","l","a","c","e"," ","o","r","d","e","r">> }

PRICE_WORD == <<"p","r","i","c","e">>

UpperCase ==
    <<"A","B","C","D","E","F","G","H","I","J","K","L","M",
      "N","O","P","Q","R","S","T","U","V","W","X","Y","Z">>
LowerCase ==
    <<"a","b","c","d","e","f","g","h","i","j","k","l","m",
      "n","o","p","q","r","s","t","u","v","w","x","y","z">>

\* str.lower() on one character, then on a message.
LowerChar(c) ==
    IF \E i \in 1..26 : UpperCase[i] = c
    THEN LowerCase[CHOOSE i \in 1..26 : UpperCase[i] = c]
    ELSE c
Lower(msg) == [i \in 1..Len(msg) |-> LowerChar(msg[i])]

\* kw in text : substring containment.
Contains(kw, text) ==
    \E i \in 0..(Len(text) - Len(kw)) : SubSeq(text, i + 1, i + Len(kw)) = kw

is_gold_related(message) == \E kw \in GOLD_KEYWORDS : Contains(kw, Lower(message))

has_buy_intent(message) == \E w \in BUY_INTENT : Contains(w, Lower(message))

get_effective_price_per_gram_inr == GOLD_PRICE_PER_GRAM_INR_DEFAULT

\* --------------------------------------------------------------- requests
Msg1 == <<"t","e","l","l"," ","m","e"," ","a","b","o","u","t"," ","g","o","l","d"," ","p","r","i","c","e">>
Msg2 == <<"I"," ","w","a","n","t"," ","t","o"," ","b","u","y"," ","g","o","l","d"," ","n","o","w">>
Msg3 == <<"h","e","l","l","o">>
Msg4 == <<"Y","e","s",","," ","p","r","o","c","e","e","d">>
Msg5 == <<"S","G","B"," ","r","e","t","u","r","n","s","?">>
Msg6 == <<"I","n","v","e","s","t"," ","i","n"," ","2","4","K">>
Messages == {Msg1, Msg2, Msg3, Msg4, Msg5, Msg6}

\* (name, email, phone) of an advisor request; "" is a supplied empty string.
NoProfile == <<None, None, None>>
Profiles ==
    { NoProfile,
      <<Some(""), None, None>>,
      <<None, Some("a@x.in"), Some("98100")>> }

Opt(S) == {None} \cup {Some(v) : v \in S}

\* The request schemas (main.py:91-96, 108-111), over the given field values.
\* amount_in_inr is in paise (>= 1 INR), grams in 1/100000 g (>= 0.01 g).
AdvisorRequest(M, U, P) ==
    { [op |-> "advisor", message |-> m, user_id |-> u,
       name |-> pr[1], email |-> pr[2], phone |-> pr[3]] :
         m \in M, u \in U, pr \in P }

PurchaseRequest(U, A, G) ==
    { [op |-> "purchase", user_id |-> u, amount_in_inr |-> a, grams |-> g] :
         u \in U, a \in A, g \in G }

QueryRequest(U) == { [op |-> "list_purchases", user_id |-> u] : u \in U }

\* Workloads.  Each specification draws its requests from one of these.
\* Two workers racing on the ledger:
RaceAdvisor ==
    AdvisorRequest({Msg3}, {Some(1)}, {NoProfile, <<None, Some("a@x.in"), Some("98100")>>})
    \cup AdvisorRequest({Msg3}, {None}, {<<None, Some("a@x.in"), Some("98100")>>})
RacePurchase == PurchaseRequest({-1, 1}, {None, Some(100000)}, {None})
RaceQuery == QueryRequest({1})
\* One worker, every advisor input:
AllAdvisor == AdvisorRequest(Messages, Opt({-1, 0, 1}), Profiles)
\* One worker, every combination of amount_in_inr and grams:
AllPurchase == PurchaseRequest({0, 1}, Opt({100000, 6550}), Opt({15385}))
\* One worker, purchases of two users and their listings (999 never buys):
HistoryPurchase == PurchaseRequest({0, 1}, {Some(100000)}, {None})
HistoryQuery == QueryRequest({0, 1, 999})

\* Python truthiness of an Optional[int] / Optional[str]: None, 0 and ""
\* are falsy.
TruthyInt(o) == o # None /\ o[1] # 0
TruthyStr(o) == o # None /\ o[1] # ""

\* ------------------------------------------------------------------ state
VARIABLES
    users,      \* table users: set of rows
    purchases,  \* table purchases: set of rows
    clock,      \* last value datetime.utcnow() returned
    uuids,      \* number of identifiers uuid4() has produced
    nreq,       \* requests accepted so far
    pc,         \* per worker: position in its handler
    req,        \* per worker: the request it is serving
    local,      \* per worker: the handler's local variables
    session,    \* per worker: whether its SessionLocal() is open
    resp        \* per worker: the response it produced

vars == <<users, purchases, clock, uuids, nreq, pc, req, local, session, resp>>

NoReq == [op |-> "none"]
NoResp == [code |-> 0]
NoLocal == [user_id |-> None, txn_id |-> 0, grams |-> 0, inr_amount |-> 0]

Init ==
    /\ users = {}
    /\ purchases = {}
    /\ clock = 1
    /\ uuids = 0
    /\ nreq = 0
    /\ pc = [p \in Procs |-> "idle"]
    /\ req = [p \in Procs |-> NoReq]
    /\ local = [p \in Procs |-> NoLocal]
    /\ session = [p \in Procs |-> FALSE]
    /\ resp = [p \in Procs |-> NoResp]

\* ---------------------------------------------------------------- storage
UserRow(id, name, email, phone, now) ==
    [id |-> id, name |-> name, email |-> email, phone |-> phone, created_at |-> now]

UserExists(id) == \E u \in users : u.id = id

\* Integer primary key assigned by the store when none is given: one more
\* than the largest key in use, 1 for an empty table.
Max(S) == CHOOSE x \in S : \A y \in S : y <= x
NextUserId == IF users = {} THEN 1 ELSE Max({u.id : u \in users}) + 1
NextPurchaseId == Cardinality(purchases) + 1

\* Mutant: a generator that hands out its previous identifier again.
uuid4_repeating == IF uuids > 0 THEN uuids ELSE 1

\* uuid4(): an identifier never produced before.
uuid4 == uuids + 1

\* ------------------------------------------------------------- arithmetic
\* A float is modelled by the exact rational <<n, d>> (d > 0) in lowest terms.
RECURSIVE GCD(_, _)
GCD(a, b) == IF b = 0 THEN a ELSE GCD(b, a % b)
Norm(n, d) == LET g == GCD(n, d) IN <<n \div g, d \div g>>
RatDivInt(q, k) == Norm(q[1], q[2] * k)
RatMulInt(q, k) == LET g == GCD(k, q[2]) IN Norm(q[1] * (k \div g), q[2] \div g)

Pow10(k) == IF k = 2 THEN 100 ELSE 10000

\* round(q, k) in units of 10^-k.  Off a decimal tie the result is the
\* nearest value; on a tie the float's binary expansion decides, so either
\* neighbour is possible.
Round(q, k) ==
    LET s  == RatMulInt(q, Pow10(k))
        f  == s[1] \div s[2]
        r2 == 2 * (s[1] % s[2])
    IN  IF r2 < s[2] THEN {f}
        ELSE IF r2 > s[2] THEN {f + 1}
        ELSE {f, f + 1}

\* Mutant: grams wins when both fields are supplied.
grams_of_grams_first(r, price_per_gram) ==
    IF r.grams # None
    THEN Norm(r.grams[1], 100000)
    ELSE RatDivInt(Norm(r.amount_in_inr[1], 100), price_per_gram)

\* main.py:207  grams = req.amount_in_inr / price_per_gram
\*              if req.amount_in_inr else req.grams      (in grams)
grams_of(r, price_per_gram) ==
    IF TruthyInt(r.amount_in_inr)
    THEN RatDivInt(Norm(r.amount_in_inr[1], 100), price_per_gram)
    ELSE Norm(r.grams[1], 100000)

\* Mutant: the amount recomputed from the grams already rounded to 4 places.
inr_amount_of_rounded(grams, price_per_gram) ==
    RatMulInt(Norm(CHOOSE g \in Round(grams, 4) : TRUE, 10000), price_per_gram)

\* main.py:208  inr_amount = grams * price_per_gram            (in INR)
inr_amount_of(grams, price_per_gram) == RatMulInt(grams, price_per_gram)

PurchaseRow(id, user_id, txn_id, grams4, inr2, price_per_gram, now) ==
    [id |-> id, user_id |-> user_id, txn_id |-> txn_id, grams |-> grams4,
     inr_amount |-> inr2, price_per_gram |-> price_per_gram,
     provider |-> "SimplifyMoney-DigitalGold", status |-> "SUCCESS",
     created_at |-> now]

\* ---------------------------------------------------------------- advisor
PLACEHOLDER == <<"<your_user_id>">>

\* Mutant: buy intent is reported whether or not the message is about gold.
AdvisorResponse_intent_first(message, user_id) ==
    [code |-> 200, is_gold_related |-> is_gold_related(message),
     fact |-> "generic",
     suggest_purchase |-> is_gold_related(message),
     redirect_to_purchase |-> has_buy_intent(message),
     next_action |-> IF is_gold_related(message)
                     THEN Some([label |-> "Buy digital gold now",
                                endpoint |-> "/purchase", method |-> "POST",
                                expected_user_id |-> user_id,
                                expected_amount_in_inr |-> 1000])
                     ELSE None,
     user_id |-> user_id]

\* main.py:159-188  the response built from the two classifiers.
AdvisorResponse(message, user_id) ==
    IF ~is_gold_related(message)
    THEN [code |-> 200, is_gold_related |-> FALSE, fact |-> "generic",
          suggest_purchase |-> FALSE, redirect_to_purchase |-> FALSE,
          next_action |-> None, user_id |-> user_id]
    ELSE [code |-> 200, is_gold_related |-> TRUE,
          fact |-> IF Contains(PRICE_WORD, Lower(message)) THEN "price" ELSE "hedge",
          suggest_purchase |-> TRUE,
          redirect_to_purchase |-> has_buy_intent(message),
          next_action |-> Some([label |-> "Buy digital gold now",
                                endpoint |-> "/purchase", method |-> "POST",
                                expected_user_id |->
                                    IF TruthyInt(user_id) THEN user_id ELSE PLACEHOLDER,
                                expected_amount_in_inr |-> 1000]),
          user_id |-> user_id]

ServerError == [code |-> 500]

\* main.py:143-152  open the session and pick the user-resolution branch.
Advisor(p, R) ==
    /\ pc[p] = "idle"
    /\ nreq < MaxRequests
    /\ \E r \in R :
        /\ req' = [req EXCEPT ![p] = r]
        /\ local' = [local EXCEPT ![p].user_id = r.user_id]
        /\ pc' = [pc EXCEPT ![p] =
                    IF r.user_id = None
                       /\ (TruthyStr(r.name) \/ TruthyStr(r.email) \/ TruthyStr(r.phone))
                    THEN "a_create"
                    ELSE IF TruthyInt(r.user_id) THEN "a_get" ELSE "a_respond"]
    /\ session' = [session EXCEPT ![p] = TRUE]
    /\ nreq' = nreq + 1
    /\ UNCHANGED <<users, purchases, clock, uuids, resp>>

\* main.py:147-151  User(name, email, phone); add; commit; refresh.
AdvisorCreateUser(p) ==
    /\ pc[p] = "a_create"
    /\ \E now \in clock..MaxClock :
        /\ users' = users \cup
              {UserRow(NextUserId, req[p].name, req[p].email, req[p].phone, now)}
        /\ clock' = now
    /\ local' = [local EXCEPT ![p].user_id = Some(NextUserId)]
    /\ pc' = [pc EXCEPT ![p] = "a_respond"]
    /\ UNCHANGED <<purchases, uuids, nreq, req, session, resp>>

\* Mutant: an existing user is updated with the request's profile fields.
AdvisorGetUser_updating(p) ==
    /\ pc[p] = "a_get"
    /\ IF UserExists(local[p].user_id[1])
       THEN /\ users' = { IF u.id = local[p].user_id[1]
                          THEN [u EXCEPT !.name = req[p].name, !.email = req[p].email,
                                         !.phone = req[p].phone]
                          ELSE u : u \in users }
            /\ pc' = [pc EXCEPT ![p] = "a_respond"]
       ELSE /\ pc' = [pc EXCEPT ![p] = "a_add"]
            /\ UNCHANGED users
    /\ UNCHANGED <<purchases, clock, uuids, nreq, req, local, session, resp>>

\* main.py:153-154  u = db.get(User, user_id)
AdvisorGetUser(p) ==
    /\ pc[p] = "a_get"
    /\ pc' = [pc EXCEPT ![p] =
                IF UserExists(local[p].user_id[1]) THEN "a_respond" ELSE "a_add"]
    /\ UNCHANGED <<users, purchases, clock, uuids, nreq, req, local, session, resp>>

\* main.py:155-157  User(id=user_id); add; commit.  The primary key rejects a
\* second row with the id: IntegrityError, which nothing catches (500).
AdvisorAddUser(p) ==
    /\ pc[p] = "a_add"
    /\ IF UserExists(local[p].user_id[1])
       THEN /\ resp' = [resp EXCEPT ![p] = ServerError]
            /\ session' = [session EXCEPT ![p] = FALSE]
            /\ pc' = [pc EXCEPT ![p] = "done"]
            /\ UNCHANGED <<users, clock>>
       ELSE /\ \E now \in clock..MaxClock :
                /\ users' = users \cup
                      {UserRow(local[p].user_id[1], None, None, None, now)}
                /\ clock' = now
            /\ pc' = [pc EXCEPT ![p] = "a_respond"]
            /\ UNCHANGED <<resp, session>>
    /\ UNCHANGED <<purchases, uuids, nreq, req, local>>

\* main.py:159-190  classify, answer, close the session.
AdvisorRespond(p) ==
    /\ pc[p] = "a_respond"
    /\ resp' = [resp EXCEPT ![p] = AdvisorResponse(req[p].message, local[p].user_id)]
    /\ session' = [session EXCEPT ![p] = FALSE]
    /\ pc' = [pc EXCEPT ![p] = "done"]
    /\ UNCHANGED <<users, purchases, clock, uuids, nreq, req, local>>

\* --------------------------------------------------------------- purchase
BadRequest == [code |-> 400, detail |-> "Provide either amount_in_inr or grams"]

\* Mutant: the check for the missing fields comes after the user resolution.
Purchase_late_check(p, R) ==
    /\ pc[p] = "idle"
    /\ nreq < MaxRequests
    /\ \E r \in R :
        /\ req' = [req EXCEPT ![p] = r]
        /\ IF r.amount_in_inr = None /\ r.grams = None
           THEN /\ resp' = [resp EXCEPT ![p] = BadRequest]
                /\ pc' = [pc EXCEPT ![p] = "done"]
                /\ users' = IF UserExists(r.user_id) THEN users
                            ELSE users \cup {UserRow(r.user_id, None, None, None, clock)}
                /\ UNCHANGED session
           ELSE /\ session' = [session EXCEPT ![p] = TRUE]
                /\ pc' = [pc EXCEPT ![p] = "p_get"]
                /\ UNCHANGED <<resp, users>>
    /\ nreq' = nreq + 1
    /\ UNCHANGED <<purchases, clock, uuids, local>>

\* main.py:195-198  reject a request with neither field, else open the session.
Purchase(p, R) ==
    /\ pc[p] = "idle"
    /\ nreq < MaxRequests
    /\ \E r \in R :
        /\ req' = [req EXCEPT ![p] = r]
        /\ IF r.amount_in_inr = None /\ r.grams = None
           THEN /\ resp' = [resp EXCEPT ![p] = BadRequest]
                /\ pc' = [pc EXCEPT ![p] = "done"]
                /\ UNCHANGED session
           ELSE /\ session' = [session EXCEPT ![p] = TRUE]
                /\ pc' = [pc EXCEPT ![p] = "p_get"]
                /\ UNCHANGED resp
    /\ nreq' = nreq + 1
    /\ UNCHANGED <<users, purchases, clock, uuids, local>>

\* main.py:200-201  user = db.get(User, req.user_id)
PurchaseGetUser(p) ==
    /\ pc[p] = "p_get"
    /\ pc' = [pc EXCEPT ![p] =
                IF UserExists(req[p].user_id) THEN "p_compute" ELSE "p_add"]
    /\ UNCHANGED <<users, purchases, clock, uuids, nreq, req, local, session, resp>>

\* Mutant: the new user is never committed.
PurchaseAddUser_no_commit(p) ==
    /\ pc[p] = "p_add"
    /\ pc' = [pc EXCEPT ![p] = "p_compute"]
    /\ UNCHANGED <<users, purchases, clock, uuids, nreq, req, local, session, resp>>

\* main.py:202-204  User(id=req.user_id); add; commit (IntegrityError: 500).
PurchaseAddUser(p) ==
    /\ pc[p] = "p_add"
    /\ IF UserExists(req[p].user_id)
       THEN /\ resp' = [resp EXCEPT ![p] = ServerError]
            /\ session' = [session EXCEPT ![p] = FALSE]
            /\ pc' = [pc EXCEPT ![p] = "done"]
            /\ UNCHANGED <<users, clock>>
       ELSE /\ \E now \in clock..MaxClock :
                /\ users' = users \cup
                      {UserRow(req[p].user_id, None, None, None, now)}
                /\ clock' = now
            /\ pc' = [pc EXCEPT ![p] = "p_compute"]
            /\ UNCHANGED <<resp, session>>
    /\ UNCHANGED <<purchases, uuids, nreq, req, local>>

\* main.py:206-210  price, grams, inr_amount (both unrounded), txn_id.
PurchaseCompute(p) ==
    /\ pc[p] = "p_compute"
    /\ LET price_per_gram == get_effective_price_per_gram_inr
           grams == grams_of(req[p], price_per_gram)
       IN  local' = [local EXCEPT ![p].grams = grams,
                                  ![p].inr_amount = inr_amount_of(grams, price_per_gram),
                                  ![p].txn_id = uuid4]
    /\ uuids' = uuids + 1
    /\ pc' = [pc EXCEPT ![p] = "p_commit"]
    /\ UNCHANGED <<users, purchases, clock, nreq, req, session, resp>>

\* main.py:211-236  Purchase(... round(grams, 4), round(inr_amount, 2) ...);
\* add; commit; refresh; receipt; close.  txn_id is a unique column.
PurchaseCommit(p) ==
    /\ pc[p] = "p_commit"
    /\ IF \E q \in purchases : q.txn_id = local[p].txn_id
       THEN /\ resp' = [resp EXCEPT ![p] = ServerError]
            /\ UNCHANGED <<purchases, clock>>
       ELSE \E now \in clock..MaxClock :
            \E g4 \in Round(local[p].grams, 4) :
            \E i2 \in Round(local[p].inr_amount, 2) :
              LET row == PurchaseRow(NextPurchaseId, req[p].user_id, local[p].txn_id,
                                     g4, i2, get_effective_price_per_gram_inr, now)
              IN  /\ purchases' = purchases \cup {row}
                  /\ clock' = now
                  /\ resp' = [resp EXCEPT ![p] =
                        [code |-> 200, success |-> TRUE, txn_id |-> local[p].txn_id,
                         user_id |-> req[p].user_id, grams |-> row.grams,
                         inr_amount |-> row.inr_amount,
                         price_per_gram |-> row.price_per_gram,
                         provider |-> row.provider, created_at |-> row.created_at]]
    /\ session' = [session EXCEPT ![p] = FALSE]
    /\ pc' = [pc EXCEPT ![p] = "done"]
    /\ UNCHANGED <<users, uuids, nreq, req, local>>

\* ------------------------------------------------------------------ query
Perms(S) ==
    { f \in [1..Cardinality(S) -> S] :
        \A i, j \in 1..Cardinality(S) : i # j => f[i] # f[j] }

\* ORDER BY created_at DESC: a stable insertion sort of the scanned rows.
RECURSIVE InsertDesc(_, _)
InsertDesc(row, sorted) ==
    IF sorted = <<>> THEN <<row>>
    ELSE IF Head(sorted).created_at >= row.created_at
         THEN <<Head(sorted)>> \o InsertDesc(row, Tail(sorted))
         ELSE <<row>> \o sorted

RECURSIVE OrderByCreatedDesc(_)
OrderByCreatedDesc(scan) ==
    IF scan = <<>> THEN <<>>
    ELSE InsertDesc(scan[Len(scan)], OrderByCreatedDesc(SubSeq(scan, 1, Len(scan) - 1)))

\* Mutant: the listing forgets its WHERE clause.
FilterByUser_all(user_id) == purchases

\* WHERE purchases.user_id = :user_id
FilterByUser(user_id) == { q \in purchases : q.user_id = user_id }

\* main.py:244-254  the fields of a row that the listing returns.
Listed(q) ==
    [txn_id |-> q.txn_id, grams |-> q.grams, inr_amount |-> q.inr_amount,
     price_per_gram |-> q.price_per_gram, status |-> q.status,
     created_at |-> q.created_at]

\* main.py:241-256  one SELECT; rows with equal created_at come in the order
\* the scan met them, which the store does not fix.
ListPurchases(p, R) ==
    /\ pc[p] = "idle"
    /\ nreq < MaxRequests
    /\ \E r \in R :
        /\ req' = [req EXCEPT ![p] = r]
        /\ \E scan \in Perms(FilterByUser(r.user_id)) :
            LET rows == OrderByCreatedDesc(scan)
            IN  resp' = [resp EXCEPT ![p] =
                    [code |-> 200, rows |-> [i \in 1..Len(rows) |-> Listed(rows[i])]]]
    /\ pc' = [pc EXCEPT ![p] = "done"]
    /\ nreq' = nreq + 1
    /\ UNCHANGED <<users, purchases, clock, uuids, local, session>>

\* The response has been sent; the worker takes the next request.
Return(p) ==
    /\ pc[p] = "done"
    /\ pc' = [pc EXCEPT ![p] = "idle"]
    /\ req' = [req EXCEPT ![p] = NoReq]
    /\ resp' = [resp EXCEPT ![p] = NoResp]
    /\ local' = [local EXCEPT ![p] = NoLocal]
    /\ UNCHANGED <<users, purchases, clock, uuids, nreq, session>>

\* Two workers serve advisor, purchase and listing requests concurrently.
Next ==
    \E p \in Procs :
        \/ Advisor(p, RaceAdvisor)
        \/ AdvisorCreateUser(p)
        \/ AdvisorGetUser(p)
        \/ AdvisorAddUser(p)
        \/ AdvisorRespond(p)
        \/ Purchase(p, RacePurchase)
        \/ PurchaseGetUser(p)
        \/ PurchaseAddUser(p)
        \/ PurchaseCompute(p)
        \/ PurchaseCommit(p)
        \/ ListPurchases(p, RaceQuery)
        \/ Return(p)

Spec == Init /\ [][Next]_vars

\* One worker serves advisor requests one after the other.
NextAdvisor ==
    \/ Advisor("w1", AllAdvisor)
    \/ AdvisorCreateUser("w1")
    \/ AdvisorGetUser("w1")
    \/ AdvisorAddUser("w1")
    \/ AdvisorRespond("w1")
    \/ Return("w1")

SpecAdvisor == Init /\ [][NextAdvisor]_vars

\* One worker serves purchase requests one after the other.
NextPurchase ==
    \/ Purchase("w1", AllPurchase)
    \/ PurchaseGetUser("w1")
    \/ PurchaseAddUser("w1")
    \/ PurchaseCompute("w1")
    \/ PurchaseCommit("w1")
    \/ Return("w1")

SpecPurchase == Init /\ [][NextPurchase]_vars

\* One worker serves purchases and listings one after the other.
NextHistory ==
    \/ Purchase("w1", HistoryPurchase)
    \/ PurchaseGetUser("w1")
    \/ PurchaseAddUser("w1")
    \/ PurchaseCompute("w1")
    \/ PurchaseCommit("w1")
    \/ ListPurchases("w1", HistoryQuery)
    \/ Return("w1")

SpecHistory == Init /\ [][NextHistory]_vars

\* ================================================================= claims
Served(p, op) == pc[p] = "done" /\ req[p].op = op
Ok(p) == resp[p].code = 200
Abs(x) == IF x < 0 THEN -x ELSE x
\* The purchases row a receipt names.
RowOf(txn_id) == CHOOSE q \in purchases : q.txn_id = txn_id
MissingBoth(r) == r.amount_in_inr = None /\ r.grams = None

\* ---- C1 -----------------------------------------------------------------
\* C1 as stated: every stored Purchase has inr_amount = round(grams *
\* price_per_gram, 2) with grams the stored, 4-decimal value.
C1_InrFromStoredGrams ==
    \A q \in purchases :
        q.inr_amount \in Round(RatMulInt(Norm(q.grams, 10000), q.price_per_gram), 2)

\* C1 amended: inr_amount is rounded from the unrounded grams * price.  For
\* an amount-driven purchase the row holds the requested amount itself and
\* the grams nearest to amount / price; for a gram-driven one the grams
\* nearest to the request and the amount nearest to grams * price.  1000 INR
\* at 6500 is stored as 0.1538 g and 1000.00 INR.
C1_InrFromUnroundedGrams ==
    \A p \in Procs :
        (Served(p, "purchase") /\ Ok(p)) =>
            LET q == RowOf(resp[p].txn_id)
                r == req[p]
            IN  /\ r.amount_in_inr # None =>
                     /\ q.inr_amount = r.amount_in_inr[1]
                     /\ 2 * Abs(q.grams * q.price_per_gram - r.amount_in_inr[1] * 100)
                            <= q.price_per_gram
                /\ r.amount_in_inr = None =>
                     /\ Abs(q.grams * 10 - r.grams[1]) <= 5
                     /\ Abs(q.inr_amount * 1000 - r.grams[1] * q.price_per_gram) <= 500
                /\ r.amount_in_inr = Some(100000) =>
                     q.grams = 1538 /\ q.inr_amount = 100000

C1_Witness ==
    \E p \in Procs :
        /\ Served(p, "purchase") /\ Ok(p)
        /\ req[p].amount_in_inr = Some(100000)
        /\ \E q \in purchases :
              q.txn_id = resp[p].txn_id /\ q.grams = 1538 /\ q.inr_amount = 100000

\* ---- C3 -----------------------------------------------------------------
\* C3 as stated: only a request supplying exactly one of amount_in_inr and
\* grams produces a receipt.
C3_ExactlyOneOf ==
    \A p \in Procs :
        (Served(p, "purchase") /\ Ok(p)) =>
            (req[p].amount_in_inr = None) # (req[p].grams = None)

\* C3 amended: at-least-one-of.  A request is rejected with 400 exactly when
\* it supplies neither field; one supplying both is accepted, and its receipt
\* is computed from amount_in_inr with grams ignored.
C3_AtLeastOneOf ==
    \A p \in Procs :
        Served(p, "purchase") =>
            /\ resp[p].code = 400 <=> MissingBoth(req[p])
            /\ (Ok(p) /\ req[p].amount_in_inr # None) =>
                  /\ resp[p].inr_amount = req[p].amount_in_inr[1]
                  /\ 2 * Abs(resp[p].grams * resp[p].price_per_gram
                             - req[p].amount_in_inr[1] * 100) <= resp[p].price_per_gram

C3_Witness ==
    \E p \in Procs :
        /\ Served(p, "purchase") /\ Ok(p)
        /\ req[p].amount_in_inr # None /\ req[p].grams # None

\* ---- C10 ----------------------------------------------------------------
\* C10: the step that rejects a purchase (neither field) changes neither
\* table, draws no identifier and leaves the worker without a session.
C10_RejectLeavesLedger ==
    [][\A p \in Procs :
          (pc[p] = "idle" /\ pc'[p] = "done" /\ resp'[p].code = 400) =>
              /\ users' = users
              /\ purchases' = purchases
              /\ uuids' = uuids
              /\ ~session[p] /\ ~session'[p]]_vars

C10_Witness ==
    \E p \in Procs :
        /\ Served(p, "purchase") /\ resp[p].code = 400
        /\ ~UserExists(req[p].user_id)
        /\ users # {}

\* ---- C6 -----------------------------------------------------------------
\* C6: a listing returns exactly the rows of the asked user, each once,
\* newest first; nothing for a user without purchases.
C6_ListingExact ==
    [][\A p \in Procs :
          (pc[p] = "idle" /\ pc'[p] = "done" /\ req'[p].op = "list_purchases") =>
              LET rows  == resp'[p].rows
                  owned == { q \in purchases : q.user_id = req'[p].user_id }
              IN  /\ Len(rows) = Cardinality(owned)
                  /\ { rows[i] : i \in 1..Len(rows) } = { Listed(q) : q \in owned }
                  /\ \A i, j \in 1..Len(rows) :
                        i < j => rows[i].created_at >= rows[j].created_at
                  /\ owned = {} => rows = <<>>]_vars

C6_Witness ==
    \E p \in Procs :
        /\ Served(p, "list_purchases")
        /\ Len(resp[p].rows) = 2
        /\ resp[p].rows[1].created_at > resp[p].rows[2].created_at

\* ---- C5 -----------------------------------------------------------------
\* C5: after an advisor call that supplied a user_id, a User with that id
\* exists and the response echoes the id.
C5_SuppliedIdExists ==
    \A p \in Procs :
        (Served(p, "advisor") /\ Ok(p) /\ req[p].user_id # None) =>
            /\ UserExists(req[p].user_id[1])
            /\ resp[p].user_id = req[p].user_id

\* ---- C8 -----------------------------------------------------------------
NextActionToPurchase(r) ==
    r.next_action # None /\ r.next_action[1].endpoint = "/purchase"

\* C8 as stated: next_action accompanies buy intent only.
C8_NextActionOnlyWithBuyIntent ==
    \A p \in Procs :
        (Served(p, "advisor") /\ Ok(p)) =>
            LET r    == resp[p]
                gold == is_gold_related(req[p].message)
                buy  == has_buy_intent(req[p].message)
            IN  /\ r.is_gold_related = gold
                /\ ~gold => ~r.suggest_purchase /\ ~r.redirect_to_purchase
                                /\ r.next_action = None
                /\ gold => r.suggest_purchase
                /\ (gold /\ buy) => r.redirect_to_purchase /\ NextActionToPurchase(r)
                /\ (gold /\ ~buy) => ~r.redirect_to_purchase /\ r.next_action = None

\* C8 amended: every gold-related answer carries the next_action naming
\* /purchase; redirect_to_purchase alone follows buy intent.  The documented
\* scenarios are part of the statement.
C8_NextActionWithGold ==
    \A p \in Procs :
        (Served(p, "advisor") /\ Ok(p)) =>
            LET r    == resp[p]
                gold == is_gold_related(req[p].message)
                buy  == has_buy_intent(req[p].message)
            IN  /\ r.is_gold_related = gold
                /\ ~gold => ~r.suggest_purchase /\ ~r.redirect_to_purchase
                                /\ r.next_action = None
                /\ gold => r.suggest_purchase /\ NextActionToPurchase(r)
                /\ gold => (r.redirect_to_purchase <=> buy)
                /\ req[p].message = Msg1 =>
                      r.is_gold_related /\ r.fact = "price" /\ ~r.redirect_to_purchase
                /\ req[p].message = Msg2 =>
                      r.is_gold_related /\ r.redirect_to_purchase
                /\ req[p].message \in {Msg3, Msg4} => ~r.is_gold_related
                /\ req[p].message \in {Msg5, Msg6} => r.is_gold_related

C8_Witness ==
    \E p \in Procs :
        /\ Served(p, "advisor") /\ Ok(p)
        /\ req[p].message = Msg1
        /\ ~resp[p].redirect_to_purchase
        /\ NextActionToPurchase(resp[p])

\* ---- C2 -----------------------------------------------------------------
\* Every user so far was created for an id some request named.
OnlyNamedUsers == \A u \in users : u.id = 1 /\ u.email = None
NamesUser(r, id) ==
    \/ r.op = "purchase" /\ ~MissingBoth(r) /\ r.user_id = id
    \/ r.op = "advisor" /\ r.user_id = Some(id)

\* C2: of two requests naming the same, not yet existing user_id, neither
\* ends in a server error.
C2_NoRequestFails ==
    \A p, o \in Procs :
        (/\ p # o
         /\ pc[p] = "done" /\ NamesUser(req[p], 1) /\ NamesUser(req[o], 1)
         /\ OnlyNamedUsers)
        => Ok(p)

\* ---- C4 -----------------------------------------------------------------
\* C4: every Purchase row belongs to an existing User, and a handler past
\* its user resolution already finds its user in the table.
C4_OwnerExists ==
    /\ \A q \in purchases : UserExists(q.user_id)
    /\ \A p \in Procs : pc[p] \in {"p_compute", "p_commit"} => UserExists(req[p].user_id)

C4_Witness ==
    \E p \in Procs :
        /\ Served(p, "purchase") /\ Ok(p)
        /\ \E q \in purchases : q.txn_id = resp[p].txn_id /\ q.user_id = -1
        /\ \E u \in users : u.id = -1

\* ---- C7 -----------------------------------------------------------------
\* C7: no step removes or alters a row of either table.
C7_AppendOnly == [][users \subseteq users' /\ purchases \subseteq purchases']_vars

C7_Witness ==
    \E p \in Procs :
        /\ Served(p, "advisor") /\ Ok(p)
        /\ req[p].user_id = Some(1) /\ req[p].email # None
        /\ \E u \in users : u.id = 1 /\ u.email = None
        /\ \E q \in purchases : q.user_id = 1

\* ---- C9 -----------------------------------------------------------------
\* C9: stored txn_ids are pairwise different, an identifier drawn but not yet
\* stored differs from every stored and every other drawn one, and a receipt
\* names the row that was stored for it.
C9_TxnIdsUnique ==
    /\ \A q1, q2 \in purchases : q1.txn_id = q2.txn_id => q1 = q2
    /\ \A p \in Procs :
          pc[p] = "p_commit" =>
              /\ \A q \in purchases : q.txn_id # local[p].txn_id
              /\ \A o \in Procs \ {p} :
                    pc[o] = "p_commit" => local[o].txn_id # local[p].txn_id
    /\ \A p \in Procs :
          (Served(p, "purchase") /\ Ok(p)) =>
              \E q \in purchases :
                  /\ q.txn_id = resp[p].txn_id
                  /\ q.user_id = resp[p].user_id
                  /\ q.grams = resp[p].grams
                  /\ q.inr_amount = resp[p].inr_amount

C9_Witness ==
    /\ Cardinality(purchases) = 2
    /\ \A p \in Procs : Served(p, "purchase") /\ Ok(p)

====
